---------------------------- MODULE Spec2Model ----------------------------
(***************************************************************************)
(* A model of server/text_generation_server/utils/tokens.py: the           *)
(* stop-sequence matcher and the StoppingCriteria state machine, the       *)
(* single-request and heterogeneous next-token choosers (construction,     *)
(* the decoding step with speculative validation, batch filtering), the    *)
(* token selectors and batch_top_tokens.                                   *)
(*                                                                         *)
(* Text is a sequence of one-character strings.  Every component has its   *)
(* own variable and its own specification; a specification leaves the      *)
(* variables of the other components at Idle.                              *)
(***************************************************************************)
EXTENDS Integers, Sequences, FiniteSets, TLC

VARIABLES
    matcher,    \* a StopSequenceCriteria, the text it is applied to, its answer
    sc,         \* a StoppingCriteria object
    sc_call,    \* the arguments and the return value of the last __call__ on sc
    topn,       \* a call of batch_top_tokens: its arguments and what it returned
    made,       \* a chooser's constructor: its arguments and the object built
    chooser,    \* a HeterogeneousNextTokenChooser serving a batch
    step,       \* the arguments and the results of the last __call__ on chooser
    twin,       \* history: where each row of the batch came from, and the samplers
                \* of the rows as they would be had filter never been called
    gram        \* a call of create_n_gram_speculation: its arguments and result

vars == <<matcher, sc, sc_call, topn, made, chooser, step, twin, gram>>

\* What a specification leaves alone: the other components' variables.
others_match == <<sc, sc_call, topn, made, chooser, step, twin, gram>>
others_stop == <<matcher, topn, made, chooser, step, twin, gram>>
others_topn == <<matcher, sc, sc_call, made, chooser, step, twin, gram>>
others_new == <<matcher, sc, sc_call, topn, chooser, step, twin, gram>>
others_chooser == <<matcher, sc, sc_call, topn, made, gram>>
others_gram == <<matcher, sc, sc_call, topn, made, chooser, step, twin>>

Idle == "idle"
None == "None"

RECURSIVE SeqsUpTo(_, _)
\* Every sequence over S of length at most n.
SeqsUpTo(S, n) ==
    IF n = 0 THEN {<<>>}
    ELSE LET shorter == SeqsUpTo(S, n - 1)
         IN  shorter \cup {Append(s, c) : s \in {t \in shorter : Len(t) = n - 1}, c \in S}

Last(s) == s[Len(s)]

\* Python's s[-n:] for n > 0.
Suffix(s, n) == IF Len(s) <= n THEN s ELSE SubSeq(s, Len(s) - n + 1, Len(s))

EndsWith(text, s) ==
    /\ Len(s) <= Len(text)
    /\ SubSeq(text, Len(text) - Len(s) + 1, Len(text)) = s

---------------------------------------------------------------------------
(* StopSequenceCriteria: re.escape, re.compile and regex.findall           *)

NL == "\n"
BACKSLASH == "\\"

\* The characters of the model's texts: two letters, two regex metacharacters
\* and the newline.
Chars == {"a", "b", ".", "$", NL}

\* re.escape puts a backslash before each of these (of the model's characters).
SpecialChars == {".", "$", BACKSLASH, NL}

RECURSIVE re_escape(_)
\* Character by character; a long string is escaped half by half.
re_escape(s) ==
    IF s = <<>> THEN <<>>
    ELSE IF Len(s) = 1
         THEN (IF s[1] \in SpecialChars THEN <<BACKSLASH, s[1]>> ELSE s)
    ELSE LET half == Len(s) \div 2
         IN  re_escape(SubSeq(s, 1, half)) \o re_escape(SubSeq(s, half + 1, Len(s)))

\* The character at place i of pattern p is taken literally: the backslashes
\* that come just before it are odd in number, the last of them escaping it.
Escaped(p, i) ==
    LET first == CHOOSE j \in 1..i :
                     /\ \A q \in j..(i - 1) : p[q] = BACKSLASH
                     /\ j = 1 \/ p[j - 1] # BACKSLASH
    IN  (i - first) % 2 = 1

\* The pattern's atoms: a backslash makes the next character a literal, "."
\* is any character but a newline, "$" is the end anchor.
re_compile(p) ==
    LET atom(i) ==
            IF Escaped(p, i) THEN [kind |-> "lit", ch |-> p[i]]
            ELSE IF p[i] = BACKSLASH /\ i < Len(p) THEN [kind |-> "escape", ch |-> p[i]]
            ELSE IF p[i] = "." THEN [kind |-> "any", ch |-> "."]
            ELSE IF p[i] = "$" THEN [kind |-> "end", ch |-> "$"]
            ELSE [kind |-> "lit", ch |-> p[i]]
        IsAtom(a) == a.kind # "escape"
    IN  SelectSeq([i \in 1..Len(p) |-> atom(i)], IsAtom)

\* "$" without re.MULTILINE: the end of the text, or just before a newline
\* that is the text's last character.
AtEnd(text, i) ==
    \/ i = Len(text)
    \/ i = Len(text) - 1 /\ text[Len(text)] = NL

\* The atoms match text from offset i (the characters text[i+1], ...): each
\* atom at the offset the atoms before it have moved to, the end anchor
\* moving over no character.
MatchAt(atoms, text, i) ==
    \A k \in 1..Len(atoms) :
        LET a == atoms[k]
            j == i + Cardinality({q \in 1..(k - 1) : atoms[q].kind # "end"})
        IN  CASE a.kind = "end" -> AtEnd(text, j)
              [] a.kind = "any" -> j < Len(text) /\ text[j + 1] # NL
              [] OTHER          -> j < Len(text) /\ text[j + 1] = a.ch

\* regex.findall(text) is not empty.
re_findall(regex, text) == \E i \in 0..Len(text) : MatchAt(regex, text, i)

\* A plausible slip: the stop string is compiled as a pattern, unescaped.
StopSequenceCriteria_init_unescaped(stop_sequence) ==
    [regex |-> re_compile(stop_sequence \o <<"$">>)]

StopSequenceCriteria_init(stop_sequence) ==
    [regex |-> re_compile(re_escape(stop_sequence) \o <<"$">>)]

StopSequenceCriteria_call(self, output) == re_findall(self.regex, output)

---------------------------------------------------------------------------
(* StoppingCriteria                                                        *)

FINISH_REASON_LENGTH == "FINISH_REASON_LENGTH"
FINISH_REASON_EOS_TOKEN == "FINISH_REASON_EOS_TOKEN"
FINISH_REASON_STOP_SEQUENCE == "FINISH_REASON_STOP_SEQUENCE"

\* The buffer is cut when it is longer than BufferLimit, to its last BufferKeep.
BufferLimit == 300
BufferKeep == 200

StoppingCriteria_init(eos_token_id, stop_sequence_criterias, max_new_tokens, ignore_eos_token) ==
    [eos_token_id |-> eos_token_id,
     stop_sequence_criterias |-> stop_sequence_criterias,
     max_new_tokens |-> max_new_tokens,
     current_tokens |-> 0,
     current_output |-> <<>>,
     ignore_eos_token |-> ignore_eos_token]

\* A plausible slip: the buffer is never cut.
AppendOutput_no_cut(current_output, last_output) == current_output \o last_output

\* current_output after the stop-sequence branch has appended last_output.
AppendOutput(current_output, last_output) ==
    LET joined == current_output \o last_output
    IN  IF Len(joined) > BufferLimit THEN Suffix(joined, BufferKeep) ELSE joined

AnyStopMatches(criterias, output) ==
    \E k \in 1..Len(criterias) : StopSequenceCriteria_call(criterias[k], output)

\* A plausible slip: > for >= in the length check.
StoppingCriteria_call_off_by_one(self, last_token, last_output) ==
    LET counted == [self EXCEPT !.current_tokens = @ + 1]
        grown == [counted EXCEPT
                    !.current_output = AppendOutput(@, last_output)]
    IN  IF counted.current_tokens > counted.max_new_tokens
        THEN [self |-> counted, stop |-> TRUE, reason |-> FINISH_REASON_LENGTH]
        ELSE IF ~counted.ignore_eos_token /\ last_token = counted.eos_token_id
        THEN [self |-> counted, stop |-> TRUE, reason |-> FINISH_REASON_EOS_TOKEN]
        ELSE IF counted.stop_sequence_criterias # <<>>
        THEN IF AnyStopMatches(grown.stop_sequence_criterias, grown.current_output)
             THEN [self |-> grown, stop |-> TRUE,
                   reason |-> FINISH_REASON_STOP_SEQUENCE]
             ELSE [self |-> grown, stop |-> FALSE, reason |-> None]
        ELSE [self |-> counted, stop |-> FALSE, reason |-> None]

\* A plausible slip: the EOS check comes first.
StoppingCriteria_call_eos_first(self, last_token, last_output) ==
    LET counted == [self EXCEPT !.current_tokens = @ + 1]
        grown == [counted EXCEPT
                    !.current_output = AppendOutput(@, last_output)]
    IN  IF ~counted.ignore_eos_token /\ last_token = counted.eos_token_id
        THEN [self |-> counted, stop |-> TRUE, reason |-> FINISH_REASON_EOS_TOKEN]
        ELSE IF counted.current_tokens >= counted.max_new_tokens
        THEN [self |-> counted, stop |-> TRUE, reason |-> FINISH_REASON_LENGTH]
        ELSE IF counted.stop_sequence_criterias # <<>>
        THEN IF AnyStopMatches(grown.stop_sequence_criterias, grown.current_output)
             THEN [self |-> grown, stop |-> TRUE,
                   reason |-> FINISH_REASON_STOP_SEQUENCE]
             ELSE [self |-> grown, stop |-> FALSE, reason |-> None]
        ELSE [self |-> counted, stop |-> FALSE, reason |-> None]

\* A plausible slip: the stop sequences are tried before the EOS token.
StoppingCriteria_call_stop_first(self, last_token, last_output) ==
    LET counted == [self EXCEPT !.current_tokens = @ + 1]
        grown == [counted EXCEPT
                    !.current_output = AppendOutput(@, last_output)]
    IN  IF counted.current_tokens >= counted.max_new_tokens
        THEN [self |-> counted, stop |-> TRUE, reason |-> FINISH_REASON_LENGTH]
        ELSE IF /\ counted.stop_sequence_criterias # <<>>
                /\ AnyStopMatches(grown.stop_sequence_criterias, grown.current_output)
        THEN [self |-> grown, stop |-> TRUE, reason |-> FINISH_REASON_STOP_SEQUENCE]
        ELSE IF ~counted.ignore_eos_token /\ last_token = counted.eos_token_id
        THEN [self |-> counted, stop |-> TRUE, reason |-> FINISH_REASON_EOS_TOKEN]
        ELSE [self |-> IF counted.stop_sequence_criterias # <<>> THEN grown ELSE counted,
              stop |-> FALSE, reason |-> None]

\* StoppingCriteria.__call__: the object after the call and the pair returned.
StoppingCriteria_call(self, last_token, last_output) ==
    LET counted == [self EXCEPT !.current_tokens = @ + 1]
        grown == [counted EXCEPT
                    !.current_output = AppendOutput(@, last_output)]
    IN  IF counted.current_tokens >= counted.max_new_tokens
        THEN [self |-> counted, stop |-> TRUE, reason |-> FINISH_REASON_LENGTH]
        ELSE IF ~counted.ignore_eos_token /\ last_token = counted.eos_token_id
        THEN [self |-> counted, stop |-> TRUE, reason |-> FINISH_REASON_EOS_TOKEN]
        ELSE IF counted.stop_sequence_criterias # <<>>
        THEN IF AnyStopMatches(grown.stop_sequence_criterias, grown.current_output)
             THEN [self |-> grown, stop |-> TRUE,
                   reason |-> FINISH_REASON_STOP_SEQUENCE]
             ELSE [self |-> grown, stop |-> FALSE, reason |-> None]
        ELSE [self |-> counted, stop |-> FALSE, reason |-> None]

---------------------------------------------------------------------------
(* The stop-sequence matcher applied to every text: SpecMatch              *)

MaxStopLen == 2
MaxTextLen == 3

InitMatch ==
    /\ matcher \in {[stop_sequence |-> s,
                     self |-> StopSequenceCriteria_init(s),
                     output |-> <<>>,
                     called |-> FALSE,
                     result |-> FALSE] : s \in SeqsUpTo(Chars, MaxStopLen)}
    /\ sc = Idle
    /\ gram = Idle
    /\ sc_call = Idle
    /\ topn = Idle
    /\ made = Idle
    /\ chooser = Idle
    /\ step = Idle
    /\ twin = Idle

\* The caller's text grows by one character.
MatcherExtend ==
    /\ Len(matcher.output) < MaxTextLen
    /\ \E c \in Chars :
         matcher' = [matcher EXCEPT !.output = Append(@, c),
                                    !.called = FALSE, !.result = FALSE]
    /\ UNCHANGED others_match

\* StopSequenceCriteria.__call__(output)
MatcherCall ==
    /\ matcher' = [matcher EXCEPT
                     !.called = TRUE,
                     !.result = StopSequenceCriteria_call(matcher.self, matcher.output)]
    /\ UNCHANGED others_match

NextMatch == MatcherExtend \/ MatcherCall

SpecMatch == InitMatch /\ [][NextMatch]_vars

\* C4: StopSequenceCriteria(s)(output) is True if and only if output ends with
\* the literal string s, for every stop string and every text, texts ending
\* in a newline included.
C4_MatchIffEndsWith ==
    matcher.called =>
        (matcher.result <=> EndsWith(matcher.output, matcher.stop_sequence))

---------------------------------------------------------------------------
(* One StoppingCriteria called once per produced token: SpecStop           *)

MaxNewTokens == 3
MaxCalls == 4

Tokens == 0..1

\* The configured stop strings.
StopLists ==
    {<<>>,
     << <<"a", "b">> >>,
     << <<".">>, <<"b", NL>> >>}

\* The decoded text of one token.
Fragments == {<<>>, <<"a">>, <<"b">>, <<"a", "b">>, <<NL>>}

CompileAll(stops) == [k \in 1..Len(stops) |-> StopSequenceCriteria_init(stops[k])]

InitStop ==
    /\ sc \in {StoppingCriteria_init(eos, CompileAll(stops), n, ig) :
                 eos \in Tokens, stops \in StopLists,
                 n \in 0..MaxNewTokens, ig \in BOOLEAN}
    /\ sc_call = [n |-> 0, last_token |-> 0, last_output |-> <<>>,
                  stop |-> FALSE, reason |-> None, stopped_before |-> FALSE]
    /\ matcher = Idle
    /\ gram = Idle
    /\ topn = Idle
    /\ made = Idle
    /\ chooser = Idle
    /\ step = Idle
    /\ twin = Idle

\* stopping_criteria(last_token, last_output)
StopCall(last_token, last_output) ==
    LET r == StoppingCriteria_call(sc, last_token, last_output)
    IN  /\ sc' = r.self
        /\ sc_call' = [n |-> sc_call.n + 1,
                       last_token |-> last_token,
                       last_output |-> last_output,
                       stop |-> r.stop,
                       reason |-> r.reason,
                       stopped_before |-> sc_call.stopped_before \/ sc_call.stop]
        /\ UNCHANGED others_stop

NextStop ==
    /\ sc_call.n < MaxCalls
    /\ \E last_token \in Tokens, last_output \in Fragments :
         StopCall(last_token, last_output)

SpecStop == InitStop /\ [][NextStop]_vars

\* The call just made would have completed a stop sequence, had it reached
\* the stop-sequence branch (a call that returns before it leaves
\* current_output as it was).
StopWouldMatch ==
    /\ sc.stop_sequence_criterias # <<>>
    /\ AnyStopMatches(sc.stop_sequence_criterias,
                      AppendOutput(sc.current_output, sc_call.last_output))

EosGiven == ~sc.ignore_eos_token /\ sc_call.last_token = sc.eos_token_id

\* C2: with max_new_tokens = N >= 1, when none of the first N-1 calls returned
\* terminal the Nth call returns (True, LENGTH), and no call before the Nth
\* returns LENGTH, whatever the EOS and stop-sequence configuration.
C2_LengthAtNthCall ==
    (sc_call.n >= 1 /\ sc.max_new_tokens >= 1) =>
        /\ (sc_call.n = sc.max_new_tokens /\ ~sc_call.stopped_before) =>
               (sc_call.stop /\ sc_call.reason = FINISH_REASON_LENGTH)
        /\ sc_call.reason = FINISH_REASON_LENGTH => sc_call.n >= sc.max_new_tokens

\* The Nth call of a run with N >= 2 that had not stopped, on an EOS token.
C2_Witness ==
    /\ sc.max_new_tokens >= 2
    /\ sc_call.n = sc.max_new_tokens
    /\ ~sc_call.stopped_before
    /\ EosGiven
    /\ sc_call.reason = FINISH_REASON_LENGTH

\* C8: on a call whose incremented current_tokens is >= max_new_tokens the
\* reason returned is LENGTH, even when the same call carries the EOS token
\* or completes a stop sequence.
C8_LengthWinsTies ==
    (sc_call.n >= 1 /\ sc.current_tokens >= sc.max_new_tokens) =>
        (sc_call.stop /\ sc_call.reason = FINISH_REASON_LENGTH)

\* A call that reaches the limit with the EOS token and a completed stop
\* sequence at once.
C8_Witness ==
    /\ sc_call.n >= 2
    /\ sc.current_tokens >= sc.max_new_tokens
    /\ EosGiven
    /\ StopWouldMatch
    /\ sc_call.reason = FINISH_REASON_LENGTH

\* C9: a call returns (True, EOS_TOKEN) if and only if the limit is not reached
\* on it, ignore_eos_token is false and last_token is eos_token_id; so never
\* with ignore_eos_token, and before any stop sequence the call completes.
C9_EosIff ==
    sc_call.n >= 1 =>
        ((sc_call.stop /\ sc_call.reason = FINISH_REASON_EOS_TOKEN)
            <=> (sc.current_tokens < sc.max_new_tokens /\ EosGiven))

\* An EOS token on a call that also completes a stop sequence.
C9_Witness ==
    /\ sc_call.n >= 2
    /\ sc_call.reason = FINISH_REASON_EOS_TOKEN
    /\ StopWouldMatch

---------------------------------------------------------------------------
(* batch_top_tokens                                                        *)

\* Log-probabilities are integers; NEG_INF stands for -inf and FINFO_MIN for
\* torch.finfo(dtype).min, the least finite value: below every other value
\* of the model and above NEG_INF.
NEG_INF == -100
FINFO_MIN == -99

MaxOf(S) == CHOOSE x \in S : \A y \in S : y <= x
MinOf(S) == CHOOSE x \in S : \A y \in S : x <= y

\* logprobs.size(-1); a row is a function on the token ids 0..V-1.
VocabOf(logprobs) == Cardinality(DOMAIN logprobs[1])

RECURSIVE TopkOrders(_, _, _)
\* torch.topk(row, k, sorted=True).indices over the positions `left`: k
\* positions by descending value.  Which of several equal values comes first
\* is not specified: every order is an outcome.
TopkOrders(row, left, k) ==
    IF k = 0 THEN {<<>>}
    ELSE LET best == {v \in left : \A w \in left : row[w] <= row[v]}
         IN  UNION {{<<v>> \o rest : rest \in TopkOrders(row, left \ {v}, k - 1)} :
                    v \in best}

\* torch.topk(row, k, sorted=True).values
TopkValues(row, k) ==
    LET order == CHOOSE o \in TopkOrders(row, DOMAIN row, k) : TRUE
    IN  [j \in 1..k |-> row[order[j]]]

\* (top_n_tokens_tensor - 1).clip(min=0), as a 1-based place in sorted_top_k.
GatherPlace(n) == (IF n - 1 < 0 THEN 0 ELSE n - 1) + 1

\* nth_highest of one row, -inf replaced by finfo.min.
NthHighest(row, max_top_n, n) ==
    LET nth == TopkValues(row, max_top_n)[GatherPlace(n)]
    IN  IF nth = NEG_INF THEN FINFO_MIN ELSE nth

\* A plausible slip: a strict comparison, which drops the boundary rank.
Included_strict(value, nth_highest) == value > nth_highest

\* logprobs >= nth_highest, for one entry.
Included(value, nth_highest) == value >= nth_highest

\* How many entries of a row the comparison keeps.
RowCount(row, nth_highest) ==
    Cardinality({v \in DOMAIN row : Included(row[v], nth_highest)})

\* torch.unique_consecutive(top_n_indices[:, 0], return_counts=True): the
\* counts of the rows that have at least one entry kept, in row order.
RECURSIVE UniqueConsecutiveCounts(_)
UniqueConsecutiveCounts(counts) ==
    IF counts = <<>> THEN <<>>
    ELSE (IF Head(counts) > 0 THEN <<Head(counts)>> ELSE <<>>)
         \o UniqueConsecutiveCounts(Tail(counts))

\* Python's seq[:n]
Prefix(s, n) == IF n >= Len(s) THEN s ELSE SubSeq(s, 1, n)

\* batch_top_tokens: every result the call can end with.  A result is the two
\* lists returned, or the error torch.topk raises for a k above the vocabulary
\* size.  top_n_tokens_tensor holds the same counts as top_n_tokens.
batch_top_tokens(top_n_tokens, top_n_tokens_tensor, logprobs) ==
    LET B == Len(top_n_tokens)
        V == VocabOf(logprobs)
        max_top_n == MaxOf({top_n_tokens[i] : i \in 1..B})
        clamped == [i \in 1..B |-> MinOf({top_n_tokens[i], V})]
        nth_highest == [i \in 1..Len(logprobs) |->
                          NthHighest(logprobs[i], max_top_n, top_n_tokens_tensor[i])]
        top_n_ishes == UniqueConsecutiveCounts(
                          [i \in 1..Len(logprobs) |->
                              RowCount(logprobs[i], nth_highest[i])])
        k == IF top_n_ishes = <<>> THEN 1
             ELSE MaxOf({top_n_ishes[i] : i \in 1..Len(top_n_ishes)})
        zipped == MinOf({Len(logprobs), Len(top_n_ishes), B})
        top_indices == {ix \in [1..Len(logprobs) ->
                                  UNION {TopkOrders(logprobs[i], DOMAIN logprobs[i], k) :
                                         i \in 1..Len(logprobs)}] :
                          \A i \in 1..Len(logprobs) :
                              ix[i] \in TopkOrders(logprobs[i], DOMAIN logprobs[i], k)}
    IN  IF max_top_n = 0
        THEN {[status |-> "returned",
               tokens |-> [i \in 1..B |-> <<>>],
               values |-> [i \in 1..B |-> <<>>]]}
        ELSE IF max_top_n > V
        THEN {[status |-> "RuntimeError", tokens |-> <<>>, values |-> <<>>]}
        ELSE {[status |-> "returned",
               tokens |-> [i \in 1..zipped |->
                             IF clamped[i] > 0 THEN Prefix(ix[i], top_n_ishes[i])
                             ELSE <<>>],
               values |-> [i \in 1..zipped |->
                             IF clamped[i] > 0
                             THEN Prefix([j \in 1..k |-> logprobs[i][ix[i][j]]],
                                         top_n_ishes[i])
                             ELSE <<>>]] : ix \in top_indices}

---------------------------------------------------------------------------
(* batch_top_tokens applied to every small batch: SpecTopN                 *)

\* The vocabulary has at most MaxVocab tokens and logprobs at most MaxCells
\* entries (rows times vocabulary size).
MaxVocab == 3
MaxCells == 6

LogProbValues == {NEG_INF, -2, -1}

\* A row of log_softmax output: at least one token has a finite value.
LogProbRows(V) == {r \in [0..(V - 1) -> LogProbValues] : \E v \in 0..(V - 1) : r[v] # NEG_INF}

RECURSIVE Tuples(_, _)
\* Every sequence over S of length n.
Tuples(S, n) ==
    IF n = 0 THEN {<<>>}
    ELSE {Append(s, x) : s \in Tuples(S, n - 1), x \in S}

InitTopN ==
    /\ \E V \in 1..MaxVocab : \E B \in 1..(MaxCells \div V) :
         topn \in {[top_n_tokens |-> ns, logprobs |-> lp, called |-> FALSE,
                    status |-> None, tokens |-> <<>>, values |-> <<>>] :
                     ns \in Tuples(0..(V + 1), B), lp \in Tuples(LogProbRows(V), B)}
    /\ matcher = Idle
    /\ gram = Idle
    /\ sc = Idle
    /\ sc_call = Idle
    /\ made = Idle
    /\ chooser = Idle
    /\ step = Idle
    /\ twin = Idle

\* batch_top_tokens(top_n_tokens, top_n_tokens_tensor, logprobs)
BatchTopTokens ==
    /\ ~topn.called
    /\ \E r \in batch_top_tokens(topn.top_n_tokens, topn.top_n_tokens, topn.logprobs) :
         topn' = [topn EXCEPT !.called = TRUE, !.status = r.status,
                              !.tokens = r.tokens, !.values = r.values]
    /\ UNCHANGED others_topn

NextTopN == BatchTopTokens

SpecTopN == InitTopN /\ [][NextTopN]_vars

\* The n-th largest value of a row, counted with repetitions (1 <= n <= V).
NthLargest(row, n) ==
    CHOOSE x \in {row[v] : v \in DOMAIN row} :
        /\ Cardinality({v \in DOMAIN row : row[v] > x}) < n
        /\ Cardinality({v \in DOMAIN row : row[v] >= x}) >= n

FiniteCount(row) == Cardinality({v \in DOMAIN row : row[v] # NEG_INF})

\* The list returned for row i is the positions of the row with a value >=
\* threshold, each once, by descending value, with their values.
ListIsFuzzyTop(i, threshold) ==
    LET row == topn.logprobs[i]
        toks == topn.tokens[i]
        vals == topn.values[i]
    IN  /\ {toks[j] : j \in 1..Len(toks)} = {v \in DOMAIN row : row[v] >= threshold}
        /\ Len(toks) = Cardinality({v \in DOMAIN row : row[v] >= threshold})
        /\ Len(vals) = Len(toks)
        /\ \A j \in 1..Len(toks) : vals[j] = row[toks[j]]
        /\ \A j \in 1..(Len(vals) - 1) : vals[j] >= vals[j + 1]

Returned == topn.called /\ topn.status = "returned"

\* C5 as stated: in a call that returns, for every row i with requested count
\* n > 0, list i is the positions v with logprobs[i,v] >= the n-th largest
\* value of row i, by descending value, and it has at least n entries.
C5_ExactNthLargest ==
    Returned =>
        \A i \in 1..Len(topn.top_n_tokens) :
            topn.top_n_tokens[i] > 0 =>
                /\ i <= Len(topn.tokens)
                /\ ListIsFuzzyTop(i, NthLargest(topn.logprobs[i], topn.top_n_tokens[i]))
                /\ Len(topn.tokens[i]) >= topn.top_n_tokens[i]

\* C5 amended: the threshold is the n-th largest value, or the least finite
\* value when that is -inf, so no -inf entry is returned; the list has at
\* least n entries when the row has n finite values, and all the finite ones
\* otherwise.
C5_FuzzyTopFinite ==
    Returned =>
        \A i \in 1..Len(topn.top_n_tokens) :
            topn.top_n_tokens[i] > 0 =>
                LET nth == NthLargest(topn.logprobs[i], topn.top_n_tokens[i])
                IN  /\ i <= Len(topn.tokens)
                    /\ ListIsFuzzyTop(i, IF nth = NEG_INF THEN FINFO_MIN ELSE nth)
                    /\ Len(topn.tokens[i]) >=
                         MinOf({topn.top_n_tokens[i], FiniteCount(topn.logprobs[i])})

\* A call that returned more than was requested for one row (a tie at the
\* boundary rank) and fewer for another (a -inf n-th value), the second row
\* not the first of the batch.
C5_Witness ==
    /\ Returned
    /\ Len(topn.tokens) >= 2
    /\ \E i \in 1..Len(topn.tokens) :
         /\ topn.top_n_tokens[i] > 0
         /\ Len(topn.tokens[i]) > topn.top_n_tokens[i]
    /\ \E i \in 2..Len(topn.tokens) :
         /\ topn.top_n_tokens[i] > 0
         /\ Len(topn.tokens[i]) < topn.top_n_tokens[i]

\* C6: a call with a requested count above the vocabulary size does not end
\* in an error: it returns what the call with the counts clamped to the
\* vocabulary size returns.
C6_ClampedNotError ==
    LET V == VocabOf(topn.logprobs)
        clamped == [i \in 1..Len(topn.top_n_tokens) |->
                      MinOf({topn.top_n_tokens[i], V})]
    IN  (topn.called /\ \E i \in 1..Len(topn.top_n_tokens) : topn.top_n_tokens[i] > V) =>
            /\ topn.status = "returned"
            /\ [status |-> topn.status, tokens |-> topn.tokens, values |-> topn.values]
                 \in batch_top_tokens(clamped, clamped, topn.logprobs)

\* A tensor holds its entries: the function f as a table of its values.
Tensor(f) == f @@ <<>>

---------------------------------------------------------------------------
(* Token selectors: Greedy, Sampling, HeterogeneousSampling                *)

\* A score row is a function on the token ids 0..V-1 with integer scores.
\* Floating-point parameters are held in tenths: ONE is 1.0.
ONE == 10

\* logits.argmax(dim=-1): the first of the greatest entries.
Greedy_call(logits) ==
    LET top == MaxOf({logits[v] : v \in DOMAIN logits})
    IN  MinOf({v \in DOMAIN logits : logits[v] = top})

Greedy_init == [kind |-> "Greedy"]

\* torch.Generator: its state is a number below GEN_MODULUS; one draw steps
\* it by a full-period linear congruence.
GEN_MODULUS == 16
GenStep(state) == (5 * state + 3) % GEN_MODULUS

\* generator.manual_seed(seed)
ManualSeed(seed) == (7 * seed + 1) % GEN_MODULUS

Sampling_init(seed) == [kind |-> "Sampling", seed |-> seed, generator |-> ManualSeed(seed)]

RECURSIVE GenAfter(_, _)
\* The generator's state after n draws.
GenAfter(state, n) == IF n = 0 THEN state ELSE GenAfter(GenStep(state), n - 1)

\* softmax up to its normalisation, which no argmax sees: 2^score, and 0
\* for a score of -inf.
RECURSIVE Pow2(_)
Pow2(n) == IF n <= 0 THEN 1 ELSE 2 * Pow2(n - 1)

\* Sampling.__call__: q[v] is the (v+1)-th draw, an exponential variate, here
\* 1 + the generator's state; the token is the first argmax of probs / q.
\* Returns the sampler with its generator advanced and the token.
Sampling_call(self, logits) ==
    LET V == Cardinality(DOMAIN logits)
        q == Tensor([v \in DOMAIN logits |-> 1 + GenAfter(self.generator, v + 1)])
        probs == Tensor([v \in DOMAIN logits |->
                    IF logits[v] = NEG_INF THEN 0 ELSE Pow2(logits[v])])
        best == {v \in DOMAIN logits :
                   \A w \in DOMAIN logits : probs[w] * q[v] <= probs[v] * q[w]}
    IN  [self |-> [self EXCEPT !.generator = GenAfter(self.generator, V)],
         token |-> MinOf(best)]

\* enumerate(list): the 0-based indices of a list.
IndicesOf(list) == 0..(Len(list) - 1)

\* The 0-based indices i of a list with P(list[i]), in increasing order.
RECURSIVE IndexList(_, _)
IndexList(flags, from) ==
    IF from > Len(flags) THEN <<>>
    ELSE (IF flags[from] THEN <<from - 1>> ELSE <<>>) \o IndexList(flags, from + 1)

HeterogeneousSampling_init(do_sample, seeds) ==
    [kind |-> "HeterogeneousSampling",
     seeds |-> seeds,
     greedy_indices |-> IndexList([i \in 1..Len(do_sample) |-> ~do_sample[i]], 1),
     sampling_mapping |-> [i \in {j \in IndicesOf(do_sample) : do_sample[j + 1]} |->
                             Sampling_init(seeds[i + 1])]]

---------------------------------------------------------------------------
(* NextTokenChooser.__init__ and HeterogeneousNextTokenChooser.__init__    *)

\* None for a numeric argument: a number no argument takes.
NONE_NUM == -1

\* A plausible slip: do_sample alone decides.
Sampling_flag_do_sample_only(do_sample, has_warpers) == do_sample

\* sampling = do_sample or has_warpers
Sampling_flag(do_sample, has_warpers) == do_sample \/ has_warpers

\* NextTokenChooser.__init__: args is a record of its arguments.
NextTokenChooser_init(args) ==
    LET has_warpers ==
            \/ args.temperature # NONE_NUM /\ args.temperature # ONE
            \/ args.top_k # NONE_NUM /\ args.top_k # 0
            \/ args.top_p # NONE_NUM /\ args.top_p < ONE
            \/ args.typical_p # NONE_NUM /\ args.typical_p < ONE
        sampling == Sampling_flag(args.do_sample, has_warpers)
    IN  [watermark_processor |-> args.watermark,
         repetition_processor |-> args.repetition_penalty # 0,
         static_warper |-> has_warpers,
         choice |-> IF sampling THEN Sampling_init(args.seed) ELSE Greedy_init]

AnyOf(flags) == \E i \in 1..Len(flags) : flags[i]

\* do_sample = [sample or active(x) for x, sample in zip(values, do_sample)]
\* when any value is active, and do_sample as it was otherwise.
OrActive(do_sample, active) ==
    IF AnyOf(active)
    THEN Tensor([i \in 1..MinOf({Len(do_sample), Len(active)}) |->
                    do_sample[i] \/ active[i]])
    ELSE do_sample

\* A plausible slip: one active warper makes every row of the batch sample.
EffectiveDoSample_whole_batch(args) ==
    LET B == Len(args.do_sample)
        any_warper == \E i \in 1..B :
                         \/ args.temperature[i] # ONE
                         \/ args.top_k[i] # 0
                         \/ args.top_p[i] < ONE
                         \/ args.typical_p[i] < ONE
    IN  [i \in 1..B |-> args.do_sample[i] \/ any_warper]

\* The do_sample list after the four warper blocks of __init__.
EffectiveDoSample(args) ==
    LET B == Len(args.do_sample)
        after_temperature ==
            OrActive(args.do_sample, [i \in 1..B |-> args.temperature[i] # ONE])
        after_top_k ==
            OrActive(after_temperature, [i \in 1..B |-> args.top_k[i] # 0])
        after_top_p ==
            OrActive(after_top_k, [i \in 1..B |-> args.top_p[i] < ONE])
    IN  OrActive(after_top_p, [i \in 1..B |-> args.typical_p[i] < ONE])

\* A logit warper of logits_process.py: its kind and its per-row parameter.
Warper(kind, values) == [kind |-> kind, values |-> values]

\* The warpers list, in the order __init__ appends them.
WarpersOf(args) ==
    LET B == Len(args.do_sample) IN
    (IF \E i \in 1..B : args.temperature[i] # ONE
     THEN <<Warper("temperature", args.temperature)>> ELSE <<>>)
    \o (IF \E i \in 1..B : args.top_k[i] # 0
        THEN <<Warper("top_k", args.top_k)>> ELSE <<>>)
    \o (IF \E i \in 1..B : args.top_p[i] < ONE
        THEN <<Warper("top_p", args.top_p)>> ELSE <<>>)
    \o (IF \E i \in 1..B : args.typical_p[i] < ONE
        THEN <<Warper("typical_p", args.typical_p)>> ELSE <<>>)

\* HeterogeneousNextTokenChooser.__init__: args is a record of its list
\* arguments.  A processor that is not built (None) has present = FALSE.
HeterogeneousNextTokenChooser_init(args) ==
    LET do_sample == EffectiveDoSample(args)
    IN  [watermark_processor |->
            IF AnyOf(args.watermark)
            THEN [present |-> TRUE,
                  rows |-> {i \in IndicesOf(args.watermark) : args.watermark[i + 1]}]
            ELSE [present |-> FALSE, rows |-> {}],
         repetition_processor |->
            IF \E i \in 1..Len(args.repetition_penalty) : args.repetition_penalty[i] # ONE
            THEN [present |-> TRUE, penalty |-> args.repetition_penalty]
            ELSE [present |-> FALSE, penalty |-> <<>>],
         warpers |-> WarpersOf(args),
         choice |-> IF AnyOf(do_sample)
                    THEN HeterogeneousSampling_init(do_sample, args.seeds)
                    ELSE Greedy_init,
         seeds |-> args.seeds,
         do_sample |-> do_sample]

\* The token of a row no selector wrote: torch.empty leaves it unset.
UNSET == -1

\* A plausible slip: the samplers of a batch draw from one stream, each after
\* the draws of the sampling rows before it.
HeterogeneousSampling_call_one_stream(self, logits) ==
    LET ahead(i) == Cardinality({k \in DOMAIN self.sampling_mapping : k < i})
        drawn == [i \in DOMAIN self.sampling_mapping |->
                    Sampling_call([self.sampling_mapping[i] EXCEPT
                                     !.generator =
                                        GenAfter(@, ahead(i) * Cardinality(DOMAIN logits[i + 1]))],
                                  logits[i + 1])]
    IN  [self |-> [self EXCEPT !.sampling_mapping =
                     [i \in DOMAIN self.sampling_mapping |-> drawn[i].self]],
         out |-> [r \in 1..Len(logits) |->
                    IF (r - 1) \in DOMAIN self.sampling_mapping THEN drawn[r - 1].token
                    ELSE Greedy_call(logits[r])]]

\* HeterogeneousSampling.__call__ on the rows of logits (row i of the code is
\* logits[i + 1]): the selector with its generators advanced and the tokens.
HeterogeneousSampling_call(self, logits) ==
    LET drawn == [i \in DOMAIN self.sampling_mapping |->
                    Sampling_call(self.sampling_mapping[i], logits[i + 1])]
    IN  [self |-> [self EXCEPT !.sampling_mapping =
                     [i \in DOMAIN self.sampling_mapping |-> drawn[i].self]],
         out |-> [r \in 1..Len(logits) |->
                    IF (r - 1) \in DOMAIN self.sampling_mapping THEN drawn[r - 1].token
                    ELSE IF self.greedy_indices # <<>> THEN Greedy_call(logits[r])
                    ELSE UNSET]]

\* self.choice(_scores) of the heterogeneous chooser, for either selector.
Choice_call(choice, logits) ==
    IF choice.kind = "Greedy"
    THEN [self |-> choice, out |-> [r \in 1..Len(logits) |-> Greedy_call(logits[r])]]
    ELSE HeterogeneousSampling_call(choice, logits)

\* A plausible slip: filter builds fresh samplers from the seeds.
HeterogeneousSampling_filter_reseed(self, indices) ==
    LET kept == {i \in IndicesOf(indices) : indices[i + 1] \in DOMAIN self.sampling_mapping}
    IN  [self EXCEPT
           !.greedy_indices =
               IndexList([k \in 1..Len(indices) |->
                            indices[k] \notin DOMAIN self.sampling_mapping], 1),
           !.sampling_mapping =
               [i \in kept |-> Sampling_init(self.sampling_mapping[indices[i + 1]].seed)]]

\* A plausible slip: the rows kept are not renumbered.
HeterogeneousSampling_filter_old_keys(self, indices) ==
    LET kept == {indices[k] : k \in 1..Len(indices)}
    IN  [self EXCEPT
           !.greedy_indices =
               IndexList([k \in 1..Len(self.seeds) |->
                            (k - 1) \in kept /\ (k - 1) \notin DOMAIN self.sampling_mapping], 1),
           !.sampling_mapping =
               [i \in kept \cap DOMAIN self.sampling_mapping |-> self.sampling_mapping[i]]]

\* HeterogeneousSampling.filter(indices): indices are 0-based row numbers.
HeterogeneousSampling_filter(self, indices) ==
    LET kept == {i \in IndicesOf(indices) : indices[i + 1] \in DOMAIN self.sampling_mapping}
    IN  [self EXCEPT
           !.greedy_indices =
               IndexList([k \in 1..Len(indices) |->
                            indices[k] \notin DOMAIN self.sampling_mapping], 1),
           !.sampling_mapping =
               [i \in kept |-> self.sampling_mapping[indices[i + 1]]]]

---------------------------------------------------------------------------
(* The logit processors and warpers of logits_process.py and watermark.py: *)
(* each a function of the token history and the scores, with a filter      *)

\* The scores of a masked token.
Masked(row, keep) == Tensor([v \in DOMAIN row |-> IF v \in keep THEN row[v] ELSE NEG_INF])

\* The watermark biases the tokens its green list holds, and the green list
\* is drawn from the last token of the history.
WatermarkRow(history, row) ==
    Tensor([v \in DOMAIN row |->
        IF row[v] # NEG_INF /\ (v + Last(history)) % 2 = 0 THEN row[v] + 1 ELSE row[v]])

\* The repetition penalty lowers the score of every token of the history.
RepetitionRow(penalty, history, row) ==
    Tensor([v \in DOMAIN row |->
        IF /\ penalty # ONE
           /\ row[v] # NEG_INF
           /\ \E k \in 1..Len(history) : history[k] = v
        THEN row[v] \div 2 ELSE row[v]])

\* One warper on one row, with the row's parameter.
WarpRow(kind, value, row) ==
    LET finite == {v \in DOMAIN row : row[v] # NEG_INF}
        least == MinOf({row[v] : v \in finite})
        above == {v \in finite : row[v] > least}
    IN  CASE kind = "temperature" ->
                Tensor([v \in DOMAIN row |->
                    IF row[v] = NEG_INF THEN NEG_INF ELSE (row[v] * ONE) \div value])
          [] kind = "top_k" ->
                IF value = 0 \/ value >= Cardinality(finite) THEN row
                ELSE Masked(row, {v \in finite :
                                    Cardinality({w \in finite : row[w] > row[v]}) < value})
          [] OTHER ->
                IF value >= ONE \/ above = {} THEN row ELSE Masked(row, above)

RECURSIVE WarpAll(_, _, _)
\* for warper in self.warpers: _scores = warper(input_ids, _scores)
WarpAll(warpers, input_ids, rows) ==
    IF warpers = <<>> THEN rows
    ELSE WarpAll(Tail(warpers), input_ids,
                 [r \in 1..Len(rows) |->
                    WarpRow(Head(warpers).kind, Head(warpers).values[r], rows[r])])

\* The scores of one position after the watermark, the repetition penalty and
\* the warpers, in that order.
ProcessScores(self, input_ids, rows) ==
    LET marked == [r \in 1..Len(rows) |->
                     IF self.watermark_processor.present
                        /\ (r - 1) \in self.watermark_processor.rows
                     THEN WatermarkRow(input_ids[r], rows[r]) ELSE rows[r]]
        penalised == [r \in 1..Len(rows) |->
                        IF self.repetition_processor.present
                        THEN RepetitionRow(self.repetition_processor.penalty[r],
                                           input_ids[r], marked[r])
                        ELSE marked[r]]
    IN  Tensor(WarpAll(self.warpers, input_ids, penalised))

\* [list[i] for i in indices]
Pick(list, indices) == [k \in 1..Len(indices) |-> list[indices[k] + 1]]

\* HeterogeneousProcessorWrapper.filter: the kept rows renumbered; None when
\* no processor is left.
WatermarkFilter(processor, indices) ==
    LET rows == {i \in IndicesOf(indices) : indices[i + 1] \in processor.rows}
    IN  [present |-> rows # {}, rows |-> rows]

\* HeterogeneousRepetitionPenaltyLogitsProcessor.filter: None when every kept
\* penalty is 1.0.
RepetitionFilter(processor, indices) ==
    LET penalty == Pick(processor.penalty, indices)
    IN  IF \E k \in 1..Len(penalty) : penalty[k] # ONE
        THEN [present |-> TRUE, penalty |-> penalty]
        ELSE [present |-> FALSE, penalty |-> <<>>]

\* A kept parameter of a warper is active.
WarperActive(kind, value) ==
    CASE kind = "temperature" -> value # ONE
      [] kind = "top_k" -> value # 0
      [] OTHER -> value < ONE

RECURSIVE FilterWarpers(_, _)
\* warper.filter(indices) for each warper, those that return None dropped.
FilterWarpers(warpers, indices) ==
    IF warpers = <<>> THEN <<>>
    ELSE LET values == Pick(Head(warpers).values, indices)
         IN  (IF \E k \in 1..Len(values) : WarperActive(Head(warpers).kind, values[k])
              THEN <<Warper(Head(warpers).kind, values)>> ELSE <<>>)
             \o FilterWarpers(Tail(warpers), indices)

---------------------------------------------------------------------------
(* The two constructors applied to every small configuration: SpecNew      *)

MaxNewBatch == 2

Seeds == {0, 1}

\* The arguments of NextTokenChooser(...): each warper field is None, its
\* default or an active value.
SingleArgs ==
    [watermark : {FALSE}, temperature : {NONE_NUM, 5, ONE}, repetition_penalty : {ONE},
     top_k : {NONE_NUM, 0, 2}, top_p : {NONE_NUM, 9, ONE}, typical_p : {NONE_NUM, 9, ONE},
     do_sample : BOOLEAN, seed : Seeds]

\* One request's NextTokenChooserParameters, as from_pb reads them.
RowParameters ==
    [watermark : {FALSE}, temperature : {5, ONE}, repetition_penalty : {ONE},
     top_k : {0, 2}, top_p : {9, ONE}, typical_p : {9, ONE},
     do_sample : BOOLEAN, seed : Seeds]

\* HeterogeneousNextTokenChooser.from_pb: one list per field.
from_pb(pb) ==
    [watermark |-> [i \in 1..Len(pb) |-> pb[i].watermark],
     temperature |-> [i \in 1..Len(pb) |-> pb[i].temperature],
     repetition_penalty |-> [i \in 1..Len(pb) |-> pb[i].repetition_penalty],
     top_k |-> [i \in 1..Len(pb) |-> pb[i].top_k],
     top_p |-> [i \in 1..Len(pb) |-> pb[i].top_p],
     typical_p |-> [i \in 1..Len(pb) |-> pb[i].typical_p],
     do_sample |-> [i \in 1..Len(pb) |-> pb[i].do_sample],
     seeds |-> [i \in 1..Len(pb) |-> pb[i].seed]]

InitNew ==
    /\ \/ \E a \in SingleArgs :
             made = [class |-> "NextTokenChooser", args |-> a, built |-> FALSE,
                     object |-> Idle]
       \/ \E B \in 1..MaxNewBatch : \E pb \in [1..B -> RowParameters] :
             made = [class |-> "HeterogeneousNextTokenChooser", args |-> from_pb(pb),
                     built |-> FALSE, object |-> Idle]
    /\ matcher = Idle
    /\ gram = Idle
    /\ sc = Idle
    /\ sc_call = Idle
    /\ topn = Idle
    /\ chooser = Idle
    /\ step = Idle
    /\ twin = Idle

\* NextTokenChooser(...)
NewNextTokenChooser ==
    /\ made.class = "NextTokenChooser"
    /\ ~made.built
    /\ made' = [made EXCEPT !.built = TRUE, !.object = NextTokenChooser_init(made.args)]
    /\ UNCHANGED others_new

\* HeterogeneousNextTokenChooser(...)
NewHeterogeneousNextTokenChooser ==
    /\ made.class = "HeterogeneousNextTokenChooser"
    /\ ~made.built
    /\ made' = [made EXCEPT !.built = TRUE,
                            !.object = HeterogeneousNextTokenChooser_init(made.args)]
    /\ UNCHANGED others_new

NextNew == NewNextTokenChooser \/ NewHeterogeneousNextTokenChooser

SpecNew == InitNew /\ [][NextNew]_vars

\* A request's own fields ask for sampling: do_sample, or a warper field that
\* is given and not its default.
AsksSampling(do_sample, temperature, top_k, top_p, typical_p) ==
    \/ do_sample
    \/ temperature # NONE_NUM /\ temperature # ONE
    \/ top_k # NONE_NUM /\ top_k # 0
    \/ top_p # NONE_NUM /\ top_p < ONE
    \/ typical_p # NONE_NUM /\ typical_p < ONE

RowAsksSampling(args, i) ==
    AsksSampling(args.do_sample[i], args.temperature[i], args.top_k[i],
                 args.top_p[i], args.typical_p[i])

\* Row i (0-based) of a heterogeneous chooser is drawn by a sampler seeded with
\* the row's own seed.
RowSampled(object, args, i) ==
    /\ object.choice.kind = "HeterogeneousSampling"
    /\ i \in DOMAIN object.choice.sampling_mapping
    /\ object.choice.sampling_mapping[i] = Sampling_init(args.seeds[i + 1])

\* Row i (0-based) of a heterogeneous chooser is chosen by argmax.
RowGreedy(object, i) ==
    \/ object.choice.kind = "Greedy"
    \/ /\ object.choice.kind = "HeterogeneousSampling"
       /\ i \notin DOMAIN object.choice.sampling_mapping
       /\ \E k \in 1..Len(object.choice.greedy_indices) :
            object.choice.greedy_indices[k] = i

\* C10: a constructed chooser samples a row, with the row's seed, if and only
\* if the row's own do_sample is true or one of its own warper fields is not
\* the default; any other row is greedy whatever the rest of the batch asks;
\* and the selector is plain Greedy exactly when no row asks for sampling.
C10_SamplingIffOwnFields ==
    (made.built /\ made.class = "NextTokenChooser" =>
        LET a == made.args
            asks == AsksSampling(a.do_sample, a.temperature, a.top_k, a.top_p, a.typical_p)
        IN  /\ asks => made.object.choice = Sampling_init(a.seed)
            /\ ~asks => made.object.choice.kind = "Greedy")
    /\
    (made.built /\ made.class = "HeterogeneousNextTokenChooser" =>
        LET a == made.args
            rows == 1..Len(a.do_sample)
        IN  /\ \A i \in rows :
                 /\ RowAsksSampling(a, i) <=> RowSampled(made.object, a, i - 1)
                 /\ ~RowAsksSampling(a, i) <=> RowGreedy(made.object, i - 1)
                 /\ made.object.do_sample[i] <=> RowAsksSampling(a, i)
            /\ made.object.choice.kind = "Greedy"
                 <=> \A i \in rows : ~RowAsksSampling(a, i))

\* A batch built with a row of all-default fields beside a row whose only
\* request for sampling is a warper field.
C10_Witness ==
    /\ made.built
    /\ made.class = "HeterogeneousNextTokenChooser"
    /\ \E i, j \in 1..Len(made.args.do_sample) :
         /\ ~RowAsksSampling(made.args, i)
         /\ ~made.args.do_sample[j] /\ made.args.top_p[j] < ONE
         /\ RowGreedy(made.object, i - 1)
         /\ RowSampled(made.object, made.args, j - 1)

---------------------------------------------------------------------------
(* HeterogeneousNextTokenChooser.__call__ and filter                       *)

\* scores.view(B, S, -1)[:, j] of the flat rows: position j of every sequence.
Column(flat, B, S, j) == [r \in 1..B |-> flat[(r - 1) * S + j]]

RECURSIVE PositionLoop(_, _, _, _, _, _, _)
\* for j in range(S): the positions from j on.  Returns the selector after
\* them and, per position, the histories handed to the transforms, the
\* processed scores and the tokens chosen.
PositionLoop(self, choice, input_ids, flat, B, S, j) ==
    IF j > S THEN [choice |-> choice, columns |-> <<>>]
    ELSE LET processed == ProcessScores(self, input_ids, Column(flat, B, S, j))
             chosen == Choice_call(choice, processed)
             rest == PositionLoop(self, chosen.self, input_ids, flat, B, S, j + 1)
         IN  [choice |-> rest.choice,
              columns |-> <<[input_ids |-> input_ids, scores |-> processed,
                             next_ids |-> chosen.out]>>
                          \o rest.columns]

\* view(B * S): the flat list of what the positions hold, sequence by sequence.
Flatten(columns, field, B, S) ==
    [p \in 1..(B * S) |-> columns[((p - 1) % S) + 1][field][((p - 1) \div S) + 1]]

RECURSIVE ValidRun(_, _, _)
\* The walk of lines 295-301 over validate_speculative = (chosen[:-1] ==
\* speculated): the number of leading positions that are equal.
ValidRun(chosen, speculated, k) ==
    IF k > Len(speculated) THEN 0
    ELSE IF chosen[k] = speculated[k] THEN 1 + ValidRun(chosen, speculated, k + 1)
    ELSE 0

\* A plausible slip: the walk does not break at the first mismatch.
Accepted_no_break(chosen, speculated) ==
    1 + Cardinality({k \in 1..Len(speculated) : chosen[k] = speculated[k]})

\* A plausible slip: speculated[k] is held against the token chosen after it.
Accepted_shifted(chosen, speculated) == 1 + ValidRun(Tail(chosen), speculated, 1)

\* accepted of one sequence: the first token and the valid run.
Accepted(chosen, speculated) == 1 + ValidRun(chosen, speculated, 1)

RECURSIVE AcceptedIndices_not_offset(_, _, _)
\* A plausible slip: the indices of a sequence are not offset by i * S.
AcceptedIndices_not_offset(accepted_ids, S, i) ==
    IF i > Len(accepted_ids) THEN <<>>
    ELSE [k \in 1..accepted_ids[i] |-> k - 1]
         \o AcceptedIndices_not_offset(accepted_ids, S, i + 1)

RECURSIVE AcceptedIndices(_, _, _)
\* The 0-based flat indices appended for the sequences from i on (i is
\* 1-based): i*S, ..., i*S + accepted - 1 of each.
AcceptedIndices(accepted_ids, S, i) ==
    IF i > Len(accepted_ids) THEN <<>>
    ELSE [k \in 1..accepted_ids[i] |-> (i - 1) * S + (k - 1)]
         \o AcceptedIndices(accepted_ids, S, i + 1)

RECURSIVE Cumsum(_, _)
\* accepted_ids.cumsum(dim=-1)[i]
Cumsum(list, i) == IF i = 0 THEN 0 ELSE list[i] + Cumsum(list, i - 1)

\* The 0-based place of the last True instead of the first.
LastMaxIndex(row, seed) ==
    IF \E k \in 1..Len(row) : row[k] = seed
    THEN MaxOf({k \in 1..Len(row) : row[k] = seed}) - 1
    ELSE 0

\* (row == seed).max(dim=0).indices: the 0-based place of the first True, and
\* 0 when no entry is True (the first of the equal maxima).
FirstMaxIndex(row, seed) ==
    IF \E k \in 1..Len(row) : row[k] = seed
    THEN MinOf({k \in 1..Len(row) : row[k] = seed}) - 1
    ELSE 0

\* The seed of sequence i taken at accepted_ids[i], the counts not summed.
create_n_gram_speculation_no_cumsum(input_ids, next_ids, accepted_ids, speculate) ==
    LET B == Len(accepted_ids)
        seeds == [i \in 1..B |-> next_ids[accepted_ids[i]]]
        indices == [i \in 1..B |-> FirstMaxIndex(input_ids[i], seeds[i]) + 1]
        all_indices == [i \in 1..B |->
                          [k \in 1..speculate |->
                              MinOf({indices[i] + (k - 1), Len(input_ids[i]) - 1})]]
    IN  [i \in 1..B |-> [k \in 1..speculate |-> input_ids[i][all_indices[i][k] + 1]]]

create_n_gram_speculation(input_ids, next_ids, accepted_ids, speculate) ==
    LET B == Len(accepted_ids)
        seeds == [i \in 1..B |-> next_ids[Cumsum(accepted_ids, i)]]
        indices == [i \in 1..B |-> FirstMaxIndex(input_ids[i], seeds[i]) + 1]
        all_indices == [i \in 1..B |->
                          [k \in 1..speculate |->
                              MinOf({indices[i] + (k - 1), Len(input_ids[i]) - 1})]]
    IN  [i \in 1..B |-> [k \in 1..speculate |-> input_ids[i][all_indices[i][k] + 1]]]

\* torch.log_softmax up to the row's constant: the scores less their maximum.
LogSoftmax(row) ==
    LET top == MaxOf({row[v] : v \in DOMAIN row})
    IN  Tensor([v \in DOMAIN row |-> IF row[v] = NEG_INF THEN NEG_INF ELSE row[v] - top])

\* HeterogeneousNextTokenChooser.__call__.  args holds input_ids (one history
\* per sequence), scores (the flat rows), speculate, speculated_ids (one list
\* per sequence; has_speculated_ids is FALSE for None) and speculative_scores
\* (per flat row, one score row per speculated position; has_speculative_scores
\* is FALSE for None).  Returns the chooser after the call and the values
\* returned, with `chosen` and `flat_scores`, the flat next_ids and scores
\* before the accepted are gathered, and `histories`, the input_ids the
\* transforms of each position were called with.
HeterogeneousNextTokenChooser_call(self, args) ==
    LET S == IF args.has_speculated_ids THEN Len(args.speculated_ids[1]) + 1 ELSE 1
        B == Len(args.scores) \div S
        loop == PositionLoop(self, self.choice, args.input_ids, args.scores, B, S, 1)
        chosen == Flatten(loop.columns, "next_ids", B, S)
        flat_scores == Flatten(loop.columns, "scores", B, S)
        accepted_ids ==
            IF args.has_speculated_ids
            THEN [i \in 1..B |->
                    Accepted(SubSeq(chosen, (i - 1) * S + 1, i * S), args.speculated_ids[i])]
            ELSE [p \in 1..Len(chosen) |-> 1]
        indices == IF args.has_speculated_ids THEN AcceptedIndices(accepted_ids, S, 1)
                   ELSE [p \in 1..Len(chosen) |-> p - 1]
        next_ids == Pick(chosen, indices)
        scores == Pick(flat_scores, indices)
        speculative_scores ==
            IF args.has_speculated_ids /\ args.has_speculative_scores
            THEN [i \in 1..B |->
                    args.speculative_scores[((i - 1) * S + accepted_ids[i] - 1) + 1]]
            ELSE args.speculative_scores
        logprobs == [p \in 1..Len(scores) |-> LogSoftmax(scores[p])]
    IN  [self |-> [self EXCEPT !.choice = loop.choice],
         chosen |-> chosen,
         indices |-> indices,
         next_ids |-> next_ids,
         next_logprobs |-> [p \in 1..Len(next_ids) |-> logprobs[p][next_ids[p]]],
         logprobs |-> logprobs,
         accepted_ids |-> accepted_ids,
         flat_scores |-> flat_scores,
         histories |-> [j \in 1..S |-> loop.columns[j].input_ids],
         has_speculative_ids |-> args.speculate > 0,
         speculative_ids |->
            IF args.speculate <= 0 THEN <<>>
            ELSE IF args.has_speculative_scores
            THEN [i \in 1..Len(speculative_scores) |->
                    [k \in 1..Len(speculative_scores[i]) |->
                        Greedy_call(speculative_scores[i][k])]]
            ELSE create_n_gram_speculation(args.input_ids, next_ids, accepted_ids,
                                           args.speculate)]

\* A plausible slip: the selector is filtered and never replaced by Greedy.
HeterogeneousNextTokenChooser_filter_no_degrade(self, indices) ==
    [watermark_processor |->
        IF self.watermark_processor.present
        THEN WatermarkFilter(self.watermark_processor, indices)
        ELSE self.watermark_processor,
     repetition_processor |->
        IF self.repetition_processor.present
        THEN RepetitionFilter(self.repetition_processor, indices)
        ELSE self.repetition_processor,
     warpers |-> FilterWarpers(self.warpers, indices),
     seeds |-> Pick(self.seeds, indices),
     do_sample |-> Pick(self.do_sample, indices),
     choice |-> IF self.choice.kind = "Greedy" THEN self.choice
                ELSE HeterogeneousSampling_filter(self.choice, indices)]

\* HeterogeneousNextTokenChooser.filter(indices)
HeterogeneousNextTokenChooser_filter(self, indices) ==
    LET do_sample == Pick(self.do_sample, indices)
    IN  [watermark_processor |->
            IF self.watermark_processor.present
            THEN WatermarkFilter(self.watermark_processor, indices)
            ELSE self.watermark_processor,
         repetition_processor |->
            IF self.repetition_processor.present
            THEN RepetitionFilter(self.repetition_processor, indices)
            ELSE self.repetition_processor,
         warpers |-> FilterWarpers(self.warpers, indices),
         seeds |-> Pick(self.seeds, indices),
         do_sample |-> do_sample,
         choice |-> IF AnyOf(do_sample)
                    THEN HeterogeneousSampling_filter(self.choice, indices)
                    ELSE Greedy_init]

---------------------------------------------------------------------------
(* A chooser in use: the actions of SpecStep and SpecBatch                 *)

\* The samplers of a chooser just built, by (1-based) row.
TwinOf(object) ==
    [origin |-> [r \in 1..Len(object.do_sample) |-> r],
     samplers |-> IF object.choice.kind = "Greedy" THEN <<>>
                  ELSE [o \in {i + 1 : i \in DOMAIN object.choice.sampling_mapping} |->
                          object.choice.sampling_mapping[o - 1]],
     built_as |-> object.choice.kind,
     filtered |-> FALSE,
     calls |-> 0,
     calls_at_filter |-> 0]

RECURSIVE DrawAll(_, _, _)
\* One sampler called on the score rows from the j-th on.
DrawAll(sampler, rows, j) ==
    IF j > Len(rows) THEN [self |-> sampler, tokens |-> <<>>]
    ELSE LET drawn == Sampling_call(sampler, rows[j])
             rest == DrawAll(drawn.self, rows, j + 1)
         IN  [self |-> rest.self, tokens |-> <<drawn.token>> \o rest.tokens]

\* The never-filtered samplers fed the score rows of this call: each row's
\* sampler draws for the row's S positions.
TwinCall(t, flat_scores, B, S) ==
    LET drawn == [r \in {q \in 1..B : t.origin[q] \in DOMAIN t.samplers} |->
                    DrawAll(t.samplers[t.origin[r]],
                            SubSeq(flat_scores, (r - 1) * S + 1, r * S), 1)]
    IN  [twin |-> [t EXCEPT !.calls = @ + 1,
                            !.samplers =
                     [o \in DOMAIN t.samplers |->
                        IF \E r \in DOMAIN drawn : t.origin[r] = o
                        THEN drawn[CHOOSE r \in DOMAIN drawn : t.origin[r] = o].self
                        ELSE t.samplers[o]]],
         tokens |-> [r \in DOMAIN drawn |-> drawn[r].tokens]]

NoStep == [called |-> FALSE, args |-> Idle, result |-> Idle, twin_tokens |-> Idle]

\* chooser(input_ids, scores, speculate, speculated_ids, speculative_scores)
ChooserCall(args) ==
    \E r \in {HeterogeneousNextTokenChooser_call(chooser, args)} :
    \E tw \in {TwinCall(twin, r.flat_scores, Len(twin.origin),
                         Len(r.flat_scores) \div Len(twin.origin))} :
        /\ chooser' = r.self
        /\ step' = [called |-> TRUE, args |-> args,
                    result |-> [chosen |-> r.chosen,
                                indices |-> r.indices,
                                next_ids |-> r.next_ids,
                                next_logprobs |-> r.next_logprobs,
                                logprobs |-> r.logprobs,
                                accepted_ids |-> r.accepted_ids,
                                histories |-> r.histories,
                                has_speculative_ids |-> r.has_speculative_ids,
                                speculative_ids |-> r.speculative_ids],
                    twin_tokens |-> tw.tokens]
        /\ twin' = tw.twin
        /\ UNCHANGED others_chooser

\* The rows a filter keeps, in the order it asks for them: every non-empty
\* list of rows of 0..B-1 in increasing order, and every one in decreasing
\* order.
KeptRows(B) ==
    {s \in UNION {[1..n -> 0..(B - 1)] : n \in 1..B} :
        \/ \A k \in 1..(Len(s) - 1) : s[k] < s[k + 1]
        \/ \A k \in 1..(Len(s) - 1) : s[k] > s[k + 1]}

\* chooser.filter(indices): the batch keeps the rows of indices.  The history
\* forgets the samplers of the rows that leave.
ChooserFilter(indices) ==
    /\ chooser' = HeterogeneousNextTokenChooser_filter(chooser, indices)
    /\ step' = NoStep
    /\ twin' = [origin |-> Pick(twin.origin, indices),
                samplers |-> [o \in {q \in DOMAIN twin.samplers :
                                       \E k \in 1..Len(indices) :
                                           twin.origin[indices[k] + 1] = q} |->
                                twin.samplers[o]],
                built_as |-> twin.built_as,
                filtered |-> TRUE,
                calls |-> twin.calls,
                calls_at_filter |-> twin.calls]
    /\ UNCHANGED others_chooser

OthersIdle ==
    /\ matcher = Idle
    /\ gram = Idle
    /\ sc = Idle
    /\ sc_call = Idle
    /\ topn = Idle
    /\ made = Idle

---------------------------------------------------------------------------
(* One decoding step on every small input: SpecStep                        *)

\* The vocabulary of the step, the most positions of a sequence (S), the most
\* flat score rows (B * S) and the most sequences of a step (B).
StepVocab == 10
MaxPositions == 3
MaxFlat == 4
MaxStepBatch == 2

\* A score row with one token ahead of the others.
PeakRow(token) == [v \in 0..(StepVocab - 1) |-> IF v = token THEN 2 ELSE 0]

StepScoreRows == {PeakRow(5), PeakRow(7), PeakRow(9)}
StepSpeculated == {7, 8}
StepHistories == <<(<<7, 8, 9>>), (<<9, 9, 5>>)>>

\* The histories of B sequences: the two histories in turn, from either.
StepInputIds(B) ==
    {[r \in 1..B |-> StepHistories[((r + first) % 2) + 1]] : first \in 0..1}

\* The requests of a step: greedy, sampling, and watermarked with a repetition
\* penalty and a top-k warper.
StepRowParameters ==
    LET default == [watermark |-> FALSE, temperature |-> ONE, repetition_penalty |-> ONE,
                    top_k |-> 0, top_p |-> ONE, typical_p |-> ONE,
                    do_sample |-> FALSE, seed |-> 0]
    IN  {default,
         [default EXCEPT !.do_sample = TRUE, !.seed = 1],
         [default EXCEPT !.watermark = TRUE, !.repetition_penalty = 12, !.top_k = 2]}

\* The scores a speculator gives for the positions after each flat row.
MedusaScores(rows, speculate) ==
    [p \in 1..rows |-> [k \in 1..speculate |-> PeakRow((p + 4 * k) % StepVocab)]]

\* No speculation asked, n-gram speculation, or a speculator's scores.
StepModes ==
    {[speculate |-> 0, medusa |-> FALSE],
     [speculate |-> 2, medusa |-> FALSE],
     [speculate |-> 2, medusa |-> TRUE]}

\* The arguments of one step.
StepArgs(ids, sc_rows, mode, given, sp) ==
    [input_ids |-> ids, scores |-> sc_rows, speculate |-> mode.speculate,
     has_speculated_ids |-> given, speculated_ids |-> sp,
     has_speculative_scores |-> mode.medusa,
     speculative_scores |-> IF mode.medusa THEN MedusaScores(Len(sc_rows), mode.speculate)
                            ELSE <<>>]

\* A chooser of B sequences and the arguments of a step with S positions each.
InitStep ==
    /\ \E B \in 1..MaxStepBatch : \E S \in 1..MinOf({MaxPositions, MaxFlat \div B}) :
       \E pb \in Tuples(StepRowParameters, B), ids \in StepInputIds(B),
          sc_rows \in Tuples(StepScoreRows, B * S), mode \in StepModes,
          given \in (IF S = 1 THEN BOOLEAN ELSE {TRUE}),
          sp \in Tuples(Tuples(StepSpeculated, S - 1), B) :
         /\ chooser = HeterogeneousNextTokenChooser_init(from_pb(pb))
         /\ step = [NoStep EXCEPT !.args = StepArgs(ids, sc_rows, mode, given, sp)]
    /\ twin = TwinOf(chooser)
    /\ OthersIdle

StepCall ==
    /\ ~step.called
    /\ ChooserCall(step.args)

NextStep == StepCall

SpecStep == InitStep /\ [][NextStep]_vars

\* The length of the longest common prefix of two lists.
CommonPrefix(a, b) ==
    LET most == MinOf({Len(a), Len(b)})
    IN  CHOOSE n \in 0..most :
            /\ \A k \in 1..n : a[k] = b[k]
            /\ n = most \/ a[n + 1] # b[n + 1]

\* The positions of a step with speculated_ids given, and its sequences.
StepPositions == Len(step.args.speculated_ids[1]) + 1
StepSequences == Len(step.args.scores) \div StepPositions

\* The tokens chosen for the positions of sequence i (1-based).
ChosenOf(i) ==
    SubSeq(step.result.chosen, (i - 1) * StepPositions + 1, i * StepPositions)

\* C1: after a call with speculated_ids given, for every sequence i,
\* accepted_ids[i] - 1 is the length of the longest common prefix of
\* speculated_ids[i] and the chosen tokens of the sequence less the last, and
\* the indices kept are, per sequence, the first position and the positions of
\* that prefix: no position after the first mismatch is kept.
C1_AcceptedIsCommonPrefix ==
    (step.called /\ step.args.has_speculated_ids) =>
        /\ Len(step.result.accepted_ids) = StepSequences
        /\ \A i \in 1..StepSequences :
             step.result.accepted_ids[i] - 1 =
                 CommonPrefix(step.args.speculated_ids[i],
                              SubSeq(ChosenOf(i), 1, StepPositions - 1))
        /\ {step.result.indices[p] : p \in 1..Len(step.result.indices)} =
               UNION {{(i - 1) * StepPositions + k :
                          k \in 0..(step.result.accepted_ids[i] - 1)} :
                      i \in 1..StepSequences}
        /\ \A p \in 1..(Len(step.result.indices) - 1) :
             step.result.indices[p] < step.result.indices[p + 1]
        /\ \A p \in 1..Len(step.result.indices) :
             step.result.next_ids[p] = step.result.chosen[step.result.indices[p] + 1]

\* A call where a speculated token that matches comes after one that does
\* not: only the first position is accepted.
C1_Witness ==
    /\ step.called
    /\ step.args.has_speculated_ids
    /\ StepPositions = 3
    /\ ChosenOf(1)[1] # step.args.speculated_ids[1][1]
    /\ ChosenOf(1)[2] = step.args.speculated_ids[1][2]
    /\ step.result.accepted_ids = <<1>>
    /\ step.result.indices = <<0>>

\* Scenario D: one sequence, speculated_ids = [[7, 8]], chosen [5, 7, 9].
ScenarioD ==
    /\ step.called
    /\ step.args.has_speculated_ids
    /\ step.args.speculated_ids = <<(<<7, 8>>)>>
    /\ step.result.chosen = <<5, 7, 9>>

\* C7 as stated: scenario D yields accepted_count = [2].
C7_ScenarioD_AcceptsTwo == ScenarioD => step.result.accepted_ids = <<2>>

\* C7, amended: scenario D yields accepted_count = [1], the first speculated
\* token 7 being held against the first chosen token 5.
C7_ScenarioD_AcceptsOne == ScenarioD => step.result.accepted_ids = <<1>>

\* Scenario D has run and accepted the first position only.
C7_Witness ==
    /\ ScenarioD
    /\ step.result.accepted_ids = <<1>>
    /\ step.result.next_ids = <<5>>

\* The histories of the sequences with the first j tokens chosen in this step
\* appended to each.
GrownHistory(j) ==
    [q \in 1..StepSequences |-> step.args.input_ids[q] \o SubSeq(ChosenOf(q), 1, j)]

\* C13: in a speculative step the transforms of position j >= 1 are called
\* with each sequence's history grown by the tokens chosen at positions
\* 0..j-1 of the step.
C13_HistoryGrowsInStep ==
    (step.called /\ step.args.has_speculated_ids /\ StepPositions > 1) =>
        \A j \in 1..(StepPositions - 1) :
            step.result.histories[j + 1] = GrownHistory(j)

\* The number of rows a step returns, and the sequence (1-based) that the
\* p-th of them belongs to.
ReturnedRows == Cumsum(step.result.accepted_ids, Len(step.result.accepted_ids))
SequenceOfRow(p) ==
    CHOOSE i \in 1..Len(step.result.accepted_ids) :
        /\ Cumsum(step.result.accepted_ids, i - 1) < p
        /\ p <= Cumsum(step.result.accepted_ids, i)

\* C17: in a speculative step of B sequences with S positions each,
\* 1 <= accepted_ids[i] <= S, the compaction indices are, sequence after
\* sequence, i*S, ..., i*S + accepted_ids[i] - 1, they increase strictly, and
\* next_ids, next_logprobs and logprobs have sum(accepted_ids) rows; without
\* speculation every accepted_ids[i] is 1 and B rows are returned.
C17_CompactionIndices ==
    step.called =>
        /\ Len(step.result.next_ids) = ReturnedRows
        /\ Len(step.result.next_logprobs) = ReturnedRows
        /\ Len(step.result.logprobs) = ReturnedRows
        /\ IF step.args.has_speculated_ids
           THEN /\ Len(step.result.accepted_ids) = StepSequences
                /\ \A i \in 1..StepSequences :
                     /\ 1 <= step.result.accepted_ids[i]
                     /\ step.result.accepted_ids[i] <= StepPositions
                /\ Len(step.result.indices) = ReturnedRows
                /\ \A p \in 1..ReturnedRows :
                     step.result.indices[p] =
                         (SequenceOfRow(p) - 1) * StepPositions
                         + (p - Cumsum(step.result.accepted_ids, SequenceOfRow(p) - 1) - 1)
                /\ \A p \in 1..(ReturnedRows - 1) :
                     step.result.indices[p] < step.result.indices[p + 1]
           ELSE /\ Len(step.result.accepted_ids) = Len(step.args.scores)
                /\ \A i \in 1..Len(step.args.scores) : step.result.accepted_ids[i] = 1
                /\ ReturnedRows = Len(step.args.scores)

\* Two sequences of two positions: the first keeps one, the second both.
C17_Witness ==
    /\ step.called
    /\ step.args.has_speculated_ids
    /\ StepPositions = 2
    /\ step.result.accepted_ids = <<1, 2>>
    /\ step.result.indices = <<0, 2, 3>>
    /\ Len(step.result.logprobs) = 3

---------------------------------------------------------------------------
(* A batch that is stepped and filtered: SpecBatch                         *)

\* The most rows of a batch, its vocabulary and the most steps it takes.
MaxBatch == 3
BatchVocab == 3
MaxSteps == 2

\* Score rows flat enough for the draw to decide the token.
BatchScoreRows ==
    {[v \in 0..(BatchVocab - 1) |-> 0],
     [v \in 0..(BatchVocab - 1) |-> v % 2]}

\* The requests of a batch: greedy, or sampling with either seed.
BatchRowParameters ==
    {p \in RowParameters :
        /\ p.temperature = ONE /\ p.top_k = 0 /\ p.typical_p = ONE /\ p.top_p = ONE
        /\ p.do_sample \/ p.seed = 0}

\* A step without speculation on the rows of the batch: the two score rows in
\* turn, from either.
BatchArgs(B) ==
    {[input_ids |-> [r \in 1..B |-> <<1, 0>>],
      scores |-> [r \in 1..B |-> IF r % 2 = 1 THEN pair[1] ELSE pair[2]],
      speculate |-> 0,
      has_speculated_ids |-> FALSE, speculated_ids |-> <<>>,
      has_speculative_scores |-> FALSE, speculative_scores |-> <<>>] :
        pair \in {p \in BatchScoreRows \X BatchScoreRows : p[1] # p[2]}}

InitBatch ==
    /\ \E B \in 1..MaxBatch : \E pb \in Tuples(BatchRowParameters, B) :
         chooser = HeterogeneousNextTokenChooser_init(from_pb(pb))
    /\ step = NoStep
    /\ twin = TwinOf(chooser)
    /\ OthersIdle

BatchCall ==
    /\ twin.calls < MaxSteps
    /\ \E args \in BatchArgs(Len(chooser.do_sample)) : ChooserCall(args)

BatchFilter ==
    \E indices \in KeptRows(Len(chooser.do_sample)) : ChooserFilter(indices)

NextBatch == BatchCall \/ BatchFilter

SpecBatch == InitBatch /\ [][NextBatch]_vars

\* Row r (1-based) of the batch as it is now was built as a sampling row.
RetainedSampling(r) == twin.origin[r] \in DOMAIN twin.samplers

\* C3: after any filters and calls, every retained sampling row holds the
\* sampler, generator state included, that the row would hold had filter
\* never been called, and the token a call samples for it is the token that
\* never-filtered sampler draws from the same scores.
C3_FilterKeepsGenerators ==
    \A r \in 1..Len(twin.origin) :
        RetainedSampling(r) =>
            /\ chooser.choice.kind = "HeterogeneousSampling"
            /\ (r - 1) \in DOMAIN chooser.choice.sampling_mapping
            /\ chooser.choice.sampling_mapping[r - 1] = twin.samplers[twin.origin[r]]
            /\ step.called => step.result.chosen[r] = step.twin_tokens[r][1]

\* A sampling row that drew, was moved to another place by a filter and drew
\* again: its token is the never-filtered sampler's, and not the token a
\* sampler fresh from the row's seed draws.
C3_Witness ==
    /\ step.called
    /\ twin.filtered
    /\ twin.calls_at_filter >= 1
    /\ twin.calls > twin.calls_at_filter
    /\ \E r \in 1..Len(twin.origin) :
         /\ RetainedSampling(r)
         /\ twin.origin[r] # r
         /\ step.result.chosen[r] = step.twin_tokens[r][1]
         /\ step.result.chosen[r] #
                Sampling_call(Sampling_init(chooser.seeds[r]), step.args.scores[r]).token

\* A sampler alone: built from the seed and called `before` times on score
\* rows of the size of `row`, it is called on `row`.
SoloDraw(seed, before, row) ==
    Sampling_call([Sampling_init(seed) EXCEPT
                     !.generator = GenAfter(@, before * Cardinality(DOMAIN row))],
                  row)

\* C11: the token sampled for a row, and the row's generator after it, are
\* those of a sampler alone with the row's seed that was fed the row's own
\* score rows: they depend on the seed, on how many times the row has drawn
\* and on the row's scores, whatever the other rows of the batch are, ask
\* for or are given, and whatever was filtered.
C11_SeededRowAlone ==
    step.called =>
        \A r \in 1..Len(twin.origin) :
            RetainedSampling(r) =>
                LET alone == SoloDraw(chooser.seeds[r], twin.calls - 1, step.args.scores[r])
                IN  /\ step.result.chosen[r] = alone.token
                    /\ chooser.choice.sampling_mapping[r - 1] = alone.self

\* Two sampling rows given different scores on their second call, after a
\* filter took a row away: each draws what it draws alone.
C11_Witness ==
    /\ step.called
    /\ twin.calls = 2
    /\ twin.filtered
    /\ \E r, q \in 1..Len(twin.origin) :
         /\ r # q
         /\ RetainedSampling(r) /\ RetainedSampling(q)
         /\ step.args.scores[r] # step.args.scores[q]
         /\ step.result.chosen[r] =
                SoloDraw(chooser.seeds[r], 1, step.args.scores[r]).token
         /\ step.result.chosen[r] #
                SoloDraw(chooser.seeds[r], 0, step.args.scores[r]).token

\* The rows of a chooser are 0..B-1, each either a key of sampling_mapping or
\* once in greedy_indices, and do_sample marks the keys.
DenselyKeyed(object) ==
    LET B == Len(object.do_sample)
        greedy == {object.choice.greedy_indices[k] :
                      k \in 1..Len(object.choice.greedy_indices)}
        keys == DOMAIN object.choice.sampling_mapping
    IN  /\ Len(object.seeds) = B
        /\ object.choice.kind = "HeterogeneousSampling" =>
              /\ keys \cap greedy = {}
              /\ keys \cup greedy = 0..(B - 1)
              /\ Cardinality(greedy) = Len(object.choice.greedy_indices)
              /\ \A i \in 0..(B - 1) : object.do_sample[i + 1] <=> i \in keys

\* The strictly increasing lists of current rows.
IncreasingRows(B) ==
    {s \in KeptRows(B) : \A k \in 1..(Len(s) - 1) : s[k] < s[k + 1]}

\* C12: a chooser, as built and after any filters and calls, is densely
\* keyed, and so is what filter(indices) makes of it for every strictly
\* increasing list of its rows: the new do_sample and seeds have one entry
\* per kept row, the entry of old row indices[i] at i, and the new key i of
\* sampling_mapping holds the sampler of old row indices[i].
C12_DenseRenumbering ==
    /\ DenselyKeyed(chooser)
    /\ \A indices \in IncreasingRows(Len(chooser.do_sample)) :
         LET after == HeterogeneousNextTokenChooser_filter(chooser, indices)
         IN  /\ DenselyKeyed(after)
             /\ Len(after.do_sample) = Len(indices)
             /\ \A i \in 0..(Len(indices) - 1) :
                  /\ after.do_sample[i + 1] = chooser.do_sample[indices[i + 1] + 1]
                  /\ after.seeds[i + 1] = chooser.seeds[indices[i + 1] + 1]
                  /\ after.do_sample[i + 1] =>
                        /\ after.choice.kind = "HeterogeneousSampling"
                        /\ after.choice.sampling_mapping[i] =
                              chooser.choice.sampling_mapping[indices[i + 1]]

\* After a call and a filter that dropped the first row, a sampling row and a
\* greedy row stand in new places, in their old order.
C12_Witness ==
    /\ twin.filtered
    /\ twin.calls_at_filter >= 1
    /\ DenselyKeyed(chooser)
    /\ chooser.choice.kind = "HeterogeneousSampling"
    /\ Len(twin.origin) = 2
    /\ twin.origin[1] = 2 /\ twin.origin[2] = 3
    /\ \E r, q \in 1..2 : chooser.do_sample[r] /\ ~chooser.do_sample[q]

\* C18: a chooser, as built and after any filters and calls, has the plain
\* Greedy selector if and only if no row of it has its do_sample flag set, and
\* a HeterogeneousSampling otherwise; a filter that keeps a sampling row finds
\* a HeterogeneousSampling to filter, and a filter of a chooser with the
\* Greedy selector leaves it with the Greedy selector.
C18_GreedyIffNoSampling ==
    /\ chooser.choice.kind \in {"Greedy", "HeterogeneousSampling"}
    /\ chooser.choice.kind = "Greedy" <=> ~AnyOf(chooser.do_sample)
    /\ \A indices \in KeptRows(Len(chooser.do_sample)) :
         /\ AnyOf(Pick(chooser.do_sample, indices)) =>
               chooser.choice.kind = "HeterogeneousSampling"
         /\ chooser.choice.kind = "Greedy" =>
               HeterogeneousNextTokenChooser_filter(chooser, indices).choice.kind = "Greedy"

\* A batch built with a sampling row that a filter after a call took away:
\* the selector is Greedy and a call was made with it.
C18_Witness ==
    /\ twin.built_as = "HeterogeneousSampling"
    /\ twin.filtered
    /\ chooser.choice.kind = "Greedy"
    /\ ~AnyOf(chooser.do_sample)
    /\ twin.calls_at_filter >= 1
    /\ twin.calls > twin.calls_at_filter
    /\ step.called


---------------------------------------------------------------------------
(* create_n_gram_speculation on every small input: SpecNGram               *)

\* The most sequences, the most history cells (sequences times history
\* length), the most entries of next_ids, and the largest speculate.
MaxGramBatch == 2
MaxGramCells == 6
MaxNext == 4
MaxSpeculate == 2

\* Tokens of the histories, and tokens of next_ids: 1 may occur in a history,
\* 2 never does.
HistoryTokens == 0..1
NextTokens == 1..2

\* The arguments as __call__ hands them over: one history per sequence, all of
\* one length; at least one accepted id per sequence; next_ids compacted, one
\* entry per accepted id; speculate positive.
InitNGram ==
    /\ \E B \in 1..MaxGramBatch : \E L \in 1..(MaxGramCells \div B) :
       \E input_ids \in [1..B -> [1..L -> HistoryTokens]] :
       \E accepted_ids \in [1..B -> 1..MaxNext] :
          /\ Cumsum(accepted_ids, B) <= MaxNext
          /\ \E next_ids \in [1..Cumsum(accepted_ids, B) -> NextTokens] :
             \E speculate \in 1..MaxSpeculate :
                gram = [input_ids |-> input_ids,
                        next_ids |-> next_ids,
                        accepted_ids |-> accepted_ids,
                        speculate |-> speculate,
                        called |-> FALSE,
                        speculative_ids |-> Idle]
    /\ matcher = Idle
    /\ sc = Idle
    /\ sc_call = Idle
    /\ topn = Idle
    /\ made = Idle
    /\ chooser = Idle
    /\ step = Idle
    /\ twin = Idle

\* create_n_gram_speculation(input_ids, next_ids, accepted_ids, speculate, verbose)
NGramCall ==
    /\ ~gram.called
    /\ gram' = [gram EXCEPT
                  !.called = TRUE,
                  !.speculative_ids =
                      create_n_gram_speculation(gram.input_ids, gram.next_ids,
                                                gram.accepted_ids, gram.speculate)]
    /\ UNCHANGED others_gram

NextNGram == NGramCall

SpecNGram == InitNGram /\ [][NextNGram]_vars

\* The sequences of the call, the seed of sequence i (the entry of next_ids at
\* the end of the sequence's accepted run), and the 1-based places of a token
\* in the history of sequence i.
GramRows == 1..Len(gram.accepted_ids)

GramSeed(i) == gram.next_ids[Cumsum(gram.accepted_ids, i)]

GramPlaces(i) == {p \in 1..Len(gram.input_ids[i]) : gram.input_ids[i][p] = GramSeed(i)}

\* The speculate tokens of history h that follow the 1-based place p, the
\* place clamped to the last one.
Following(h, p, speculate) ==
    [k \in 1..speculate |-> h[IF p + k <= Len(h) THEN p + k ELSE Len(h)]]

\* C14 (as stated): for a sequence whose seed occurs in its history, the
\* proposed ids are the speculate tokens that follow the most recent (last)
\* occurrence of the seed, the places clamped to the last one.
C14_FollowsLastOccurrence ==
    gram.called =>
        \A i \in GramRows :
            GramPlaces(i) # {} =>
                gram.speculative_ids[i] =
                    Following(gram.input_ids[i], MaxOf(GramPlaces(i)), gram.speculate)

\* C14 (amended): for a sequence whose seed occurs in its history, the
\* proposed ids are the speculate tokens that follow the first (earliest)
\* occurrence of the seed, the places clamped to the last one.
C14_FollowsFirstOccurrence ==
    gram.called =>
        \A i \in GramRows :
            GramPlaces(i) # {} =>
                gram.speculative_ids[i] =
                    Following(gram.input_ids[i], MinOf(GramPlaces(i)), gram.speculate)

\* The seed occurs twice in a history and the tokens that follow its two
\* occurrences differ, so that the two readings propose different ids.
C14_Witness ==
    /\ gram.called
    /\ \E i \in GramRows :
          /\ Cardinality(GramPlaces(i)) >= 2
          /\ Following(gram.input_ids[i], MinOf(GramPlaces(i)), gram.speculate)
               # Following(gram.input_ids[i], MaxOf(GramPlaces(i)), gram.speculate)
          /\ gram.speculative_ids[i] =
               Following(gram.input_ids[i], MinOf(GramPlaces(i)), gram.speculate)

\* C15: for a sequence whose seed occurs nowhere in its history, the proposed
\* ids are a tail of the history: the tokens from some place among the last
\* speculate places on, the places clamped to the last one.
C15_AbsentSeedProposesTail ==
    gram.called =>
        \A i \in GramRows :
            GramPlaces(i) = {} =>
                LET h == gram.input_ids[i]
                    first == IF Len(h) > gram.speculate THEN Len(h) - gram.speculate ELSE 0
                IN  \E p \in first..(Len(h) - 1) :
                        gram.speculative_ids[i] = Following(h, p, gram.speculate)


\* The last token accepted for sequence i in the step: of the tokens chosen
\* for its positions, the one at its accepted count.
LastAccepted(i) == ChosenOf(i)[step.result.accepted_ids[i]]

\* The 0-based index the gather of sequence i starts at when the seed is the
\* sequence's last accepted token: one past the first place of the seed in
\* the history, and 1 when the seed is not there.
GatherStart(i) ==
    LET h == step.args.input_ids[i]
        places == {p \in 1..Len(h) : h[p] = LastAccepted(i)}
    IN  IF places = {} THEN 1 ELSE MinOf(places)

\* C20: in a step with n-gram speculation every accepted count is at least 1,
\* next_ids holds one entry per accepted token, the seed of sequence i,
\* next_ids[cumsum(accepted_ids)[i] - 1], is the last token accepted for
\* sequence i, and speculative_ids has one row per sequence and speculate
\* entries per row, each gathered from the sequence's own history at an index
\* within it.
C20_SeedIsLastAccepted ==
    (step.called /\ step.args.speculate > 0 /\ ~step.args.has_speculative_scores) =>
        /\ \A i \in 1..StepSequences : step.result.accepted_ids[i] >= 1
        /\ Len(step.result.next_ids) = Cumsum(step.result.accepted_ids, StepSequences)
        /\ \A i \in 1..StepSequences :
             step.result.next_ids[Cumsum(step.result.accepted_ids, i)] = LastAccepted(i)
        /\ Len(step.result.speculative_ids) = StepSequences
        /\ \A i \in 1..StepSequences :
             /\ Len(step.result.speculative_ids[i]) = step.args.speculate
             /\ step.result.speculative_ids[i] =
                    Following(step.args.input_ids[i], GatherStart(i), step.args.speculate)

\* Two sequences, the first with two tokens accepted and the second with one;
\* the second's last accepted token is not the entry of next_ids at its own
\* count, and the proposal for it follows that token in its own history.
C20_Witness ==
    /\ step.called
    /\ step.args.speculate > 0
    /\ ~step.args.has_speculative_scores
    /\ step.result.accepted_ids = <<2, 1>>
    /\ step.result.next_ids[3] # step.result.next_ids[1]
    /\ \E p \in 1..Len(step.args.input_ids[2]) : step.args.input_ids[2][p] = LastAccepted(2)
    /\ step.result.speculative_ids[2] =
           Following(step.args.input_ids[2], GatherStart(2), step.args.speculate)


---------------------------------------------------------------------------
(* A StoppingCriteria fed long fragments: SpecBuffer                       *)

\* The most calls on one object.
MaxBufferCalls == 3

\* n times the character c.
Run(c, n) == [k \in 1..n |-> c] @@ <<>>

\* A stop string of BufferKeep characters: a "b" and then "a"s.
LongStop == <<"b">> \o Run("a", BufferKeep - 1)

\* The configured stop strings: none, a short one, the long one.
BufferStopLists ==
    {<<>>,
     << <<"a", "b">> >>,
     << LongStop >>}

\* The decoded text of one token, or of a chunk of tokens: half a buffer of
\* "a"s, the long stop string with a newline after it, and short pieces.
BufferFragments ==
    {Run("a", BufferKeep \div 2),
     LongStop \o <<NL>>,
     <<"a", "b">>,
     <<NL>>}

\* An object with token 1 for EOS, and the history of its calls: the number
\* of calls, the last call's arguments and return value, current_output as
\* it was before the last call, and full, the fragments the stop-sequence
\* branch has appended, never cut.
InitBuffer ==
    /\ \E stops \in BufferStopLists, n \in {2, MaxBufferCalls + 1}, ig \in BOOLEAN :
         /\ sc = StoppingCriteria_init(1, CompileAll(stops), n, ig)
         /\ sc_call = [n |-> 0, stops |-> stops, last_token |-> 0, last_output |-> <<>>,
                       stop |-> FALSE, reason |-> None, before |-> <<>>, full |-> <<>>]
    /\ matcher = Idle
    /\ gram = Idle
    /\ topn = Idle
    /\ made = Idle
    /\ chooser = Idle
    /\ step = Idle
    /\ twin = Idle

\* stopping_criteria(last_token, last_output)
BufferCall(last_token, last_output) ==
    \E r \in {StoppingCriteria_call(sc, last_token, last_output)} :
        /\ sc' = r.self
        /\ sc_call' = [sc_call EXCEPT
                         !.n = @ + 1,
                         !.last_token = last_token,
                         !.last_output = last_output,
                         !.stop = r.stop,
                         !.reason = r.reason,
                         !.before = sc.current_output,
                         !.full = IF /\ r.reason \in {FINISH_REASON_STOP_SEQUENCE, None}
                                     /\ sc.stop_sequence_criterias # <<>>
                                  THEN @ \o last_output
                                  ELSE @]
        /\ UNCHANGED others_stop

NextBuffer ==
    /\ sc_call.n < MaxBufferCalls
    /\ \E last_token \in Tokens, last_output \in BufferFragments :
         BufferCall(last_token, last_output)

SpecBuffer == InitBuffer /\ [][NextBuffer]_vars

\* The last call went through the stop-sequence branch.
ReachedStopBranch ==
    /\ sc_call.n > 0
    /\ sc.stop_sequence_criterias # <<>>
    /\ sc_call.reason \in {FINISH_REASON_STOP_SEQUENCE, None}

\* C16: with every stop string at most 200 characters long, a call that
\* reaches the stop-sequence branch decides on the bounded buffer what the
\* stop sequences decide on the full, never cut text of the fragments.
C16_CutLosesNoMatch ==
    (/\ ReachedStopBranch
     /\ \A k \in 1..Len(sc_call.stops) : Len(sc_call.stops[k]) <= 200) =>
        (sc_call.stop <=> AnyStopMatches(sc.stop_sequence_criterias, sc_call.full))

\* C19: current_output is never longer than 300 characters, and a call that
\* returns LENGTH or EOS_TOKEN, or any call on an object without stop
\* sequences, leaves current_output as it was.
C19_BufferBounded ==
    /\ Len(sc.current_output) <= 300
    /\ (/\ sc_call.n > 0
        /\ sc_call.reason \in {FINISH_REASON_LENGTH, FINISH_REASON_EOS_TOKEN}) =>
           sc.current_output = sc_call.before
    /\ (sc_call.n > 0 /\ sc.stop_sequence_criterias = <<>>) =>
           sc.current_output = sc_call.before

\* The buffer has been cut to its last 200 characters, and a later call that
\* returned EOS_TOKEN has left it as it was.
C19_Witness ==
    /\ sc_call.n > 0
    /\ sc_call.reason = FINISH_REASON_EOS_TOKEN
    /\ Len(sc_call.full) > 300
    /\ Len(sc.current_output) = 200
    /\ sc.current_output = sc_call.before

=============================================================================
